---- MODULE Spec2Model ----
(***************************************************************************)
(* Model of the planner generator (src/main.go): the Monday-first calendar *)
(* decomposition monthWeeks, the Links anchor registry, and the two-phase  *)
(* build buildPlanner (allocate every anchor, then render the pages).      *)
(*                                                                         *)
(* A time.Time at midnight UTC is modelled by its day number, the count of *)
(* days since 0001-01-01 (proleptic Gregorian).  A pdf document is         *)
(* modelled by its link counter and by the log of the calls made on each   *)
(* page.                                                                   *)
(***************************************************************************)
EXTENDS Integers, Sequences, FiniteSets, TLC

\* ------------------------------------------------------------------ bounds

\* Number of calendar years a build is checked for (2024, 2025, ...).
NumYears == 4

\* Number of calendar years monthWeeks is checked for (2000, 2001, ...).
NumWeekYears == 101

\* Cap on the iterations of the monthWeeks loop explored by the stepwise model.
MaxWeeks == 8

BuildYears == { 2024 + i : i \in 0..(NumYears - 1) }

WeekYears == { 2000 + i : i \in 0..(NumWeekYears - 1) }

\* ------------------------------------------------- time.Time, day numbers

\* time.Monday
Monday == 1

IsLeap(y) == (y % 4 = 0) /\ ((y % 100 # 0) \/ (y % 400 = 0))

\* Days of the non-leap year before each month (index m: before month m;
\* index 13: the whole year).
daysBefore == <<0, 31, 59, 90, 120, 151, 181, 212, 243, 273, 304, 334, 365>>

DaysBeforeMonth(y, m) == daysBefore[m] + (IF IsLeap(y) /\ m >= 3 THEN 1 ELSE 0)

\* Days from 0001-01-01 to January 1st of year y.
DaysSinceEpoch(y) ==
    LET p == y - 1 IN 365 * p + (p \div 4) - (p \div 100) + (p \div 400)

\* time.Date(year, month, day, 0, 0, 0, 0, time.UTC): month is normalised
\* into 1..12 with carry into the year; day may be 0 or exceed the month
\* and simply offsets the day number.
Date(year, month, day) ==
    LET m0 == month - 1
        y  == year + (m0 \div 12)
        m  == (m0 % 12) + 1
    IN  DaysSinceEpoch(y) + DaysBeforeMonth(y, m) + day - 1

\* t.AddDate(0, 0, n)
AddDays(t, n) == t + n

\* t.Weekday(): 0001-01-01 is a Monday.
Weekday(t) == (t + 1) % 7

\* t.Year(), by 400/100/4/1-year cycles.
YearOf(t) ==
    LET n400 == t \div 146097
        d1   == t - 146097 * n400
        c100 == d1 \div 36524
        n100 == c100 - (c100 \div 4)
        d2   == d1 - 36524 * n100
        n4   == d2 \div 1461
        d3   == d2 - 1461 * n4
        c1   == d3 \div 365
        n1   == c1 - (c1 \div 4)
    IN  400 * n400 + 100 * n100 + 4 * n4 + n1 + 1

\* The month in which day yd (0-based) of year y falls.
MonthOfYDay(y, yd) ==
    CHOOSE m \in 1..12 :
        DaysBeforeMonth(y, m) <= yd /\ yd < DaysBeforeMonth(y, m + 1)

\* t.Month()
MonthOf(t) == LET y == YearOf(t) IN MonthOfYDay(y, t - DaysSinceEpoch(y))

\* t.Day()
DayOf(t) ==
    LET y  == YearOf(t)
        yd == t - DaysSinceEpoch(y)
    IN  yd - DaysBeforeMonth(y, MonthOfYDay(y, yd)) + 1

\* t.After(u), t.Before(u)
After(t, u) == t > u

\* t.Format("2006-01-02"): the key "YYYY-MM-DD", modelled by the number
\* whose decimal digits are YYYYMMDD.
FormatKey(t) ==
    LET y  == YearOf(t)
        yd == t - DaysSinceEpoch(y)
        m  == MonthOfYDay(y, yd)
    IN  y * 10000 + m * 100 + (yd - DaysBeforeMonth(y, m) + 1)

\* ------------------------------------------------------------ monthWeeks

\* first := time.Date(year, month, 1, ...)
FirstOf(year, month) == Date(year, month, 1)

\* last := time.Date(year, month+1, 0, ...)
LastOf(year, month) == Date(year, month + 1, 0)

\* Mutant of Offset: the offset of a Sunday-first week.
OffsetSundayFirst(first) == Weekday(first) % 7

\* offset := (int(first.Weekday()) + 6) % 7
Offset(first) == (Weekday(first) + 6) % 7

\* start := first.AddDate(0, 0, -offset)
StartOf(year, month) ==
    LET first == FirstOf(year, month) IN AddDays(first, 0 - Offset(first))

\* The inner loop: week[i] = cur; cur = cur.AddDate(0, 0, 1), seven times.
WeekFrom(cur) == [i \in 1..7 |-> AddDays(cur, i - 1)]

\* cur after the inner loop.
CurAfterWeek(cur) == AddDays(cur, 7)

\* Mutant of LoopExit: the test of cur.After(last) is lost.
LoopExitOnAnyMonday(cur, last) == Weekday(cur) = Monday

\* if cur.After(last) && cur.Weekday() == time.Monday { break }
LoopExit(cur, last) == After(cur, last) /\ Weekday(cur) = Monday

RECURSIVE WeeksLoop(_, _, _)
WeeksLoop(cur, last, weeks) ==
    LET ws == Append(weeks, WeekFrom(cur))
        c  == CurAfterWeek(cur)
    IN  IF LoopExit(c, last) THEN ws ELSE WeeksLoop(c, last, ws)

monthWeeks(year, month) ==
    WeeksLoop(StartOf(year, month), LastOf(year, month), <<>>)

\* --------------------------------------------------------------- state

VARIABLES
    cfg,      \* PlannerConfig: Year and the Layout flags ShowWeeks, ShowDays, ShowCollections
    pc,       \* position of buildPlanner
    month,    \* loop variable m / month of buildPlanner (1..12)
    idx,      \* loop variable idx of the week loop (0-based, as in the code)
    di,       \* position in wk of the day loop (1..7; 0 outside it)
    nLinks,   \* number of anchors the pdf has handed out (pdf.AddLink)
    links,    \* the Links registry
    pages,    \* the pages added so far, each with the calls made on it
    mw        \* one call of monthWeeks, executed step by step

vars == <<cfg, pc, month, idx, di, nLinks, links, pages, mw>>

buildVars == <<cfg, pc, month, idx, di, nLinks, links, pages>>

\* ------------------------------------------------------------ Go maps

\* A Go map is a function with a finite domain; reading a missing key
\* yields the zero value.
EmptyMap == <<>>

Get(map, k) == IF k \in DOMAIN map THEN map[k] ELSE 0

Put(map, k, v) == [x \in (DOMAIN map) \cup {k} |-> IF x = k THEN v ELSE map[x]]

\* newLinks(): Year and Months are zero, the four maps are empty.
newLinks ==
    [ Year        |-> 0,
      Months      |-> [i \in 1..12 |-> 0],
      Weeks       |-> EmptyMap,
      Days        |-> EmptyMap,
      Collections |-> EmptyMap,
      Hubs        |-> EmptyMap ]

\* names := []string{"Writing", "Ideas", "OOO"}
CollectionNames == <<"Writing", "Ideas", "OOO">>

\* pdf.AddLink() with n anchors handed out so far: handles count from 1
\* (handle 0 is the library's unused entry), so the new handle is n + 1.
AddLink(n) == n + 1

\* ------------------------------------------------------ pdf call log

RECURSIVE Concat(_)
Concat(ss) == IF ss = <<>> THEN <<>> ELSE Head(ss) \o Concat(Tail(ss))

\* pdf.SetLink(a, 0, pdf.PageNo())
SetLink(a) == [op |-> "SetLink", role |-> "bind", a |-> a]

\* pdf.Link(x, y, w, h, a); role names the call site.
Link(role, a) == [op |-> "Link", role |-> role, a |-> a]

\* pdf.CellFormat, pdf.Rect, pdf.Circle: something drawn on the page.
Draw(op) == [op |-> op, role |-> "draw", a |-> 0]

setTitle == << Draw("CellFormat") >>

setSubTitle == << Draw("CellFormat") >>

\* dotGrid draws one circle per lattice point; the lattice is recorded as
\* one Circle call.
dotGrid == << Draw("Circle") >>

addNav(homeLink, backLink) ==
    (IF backLink # 0
        THEN << Draw("CellFormat"), Link("back", backLink) >> ELSE <<>>)
    \o
    (IF homeLink # 0
        THEN << Draw("CellFormat"), Link("home", homeLink) >> ELSE <<>>)

\* gridLinks(pdf, l, cols, labels, anchors) for nLabels labels.
gridLinks(nLabels, anchors) ==
    Concat([i \in 1..nLabels |->
        << Draw("Rect"), Draw("CellFormat") >>
        \o (IF i <= Len(anchors) /\ anchors[i] # 0
               THEN << Link("cell", anchors[i]) >> ELSE <<>>)])

\* ----------------------------------------------------- page builders

\* A page: its kind, its coordinates in the traversal, and the calls made
\* on it after pdf.AddPage(), in order.
Page(kind, mo, i, key, name, calls) ==
    [kind |-> kind, month |-> mo, idx |-> i, key |-> key, name |-> name,
     calls |-> calls]

\* anchors of the three collections, in the order of names
CollectionAnchors(l) == [i \in 1..3 |-> Get(l.Collections, CollectionNames[i])]

yearPageCalls(c, l) ==
    << SetLink(l.Year) >>
    \o setTitle \o setSubTitle
    \o gridLinks(12, [i \in 1..12 |-> l.Months[i]])
    \o (IF c.ShowCollections
           THEN setSubTitle \o gridLinks(3, CollectionAnchors(l))
           ELSE <<>>)

yearPage(c, l) == Page("year", 0, 0, 0, "", yearPageCalls(c, l))

\* daysInMonth := time.Date(cfg.Year, time.Month(month+1), 0, ...).Day()
DaysInMonth(year, mo) == DayOf(Date(year, mo + 1, 0))

\* Mutant of monthPageWeekRows: the week link is drawn whatever ShowWeeks.
monthPageWeekRowsUnguarded(c, l, mo) ==
    LET weeks == monthWeeks(c.Year, mo) IN
    Concat([i \in 1..Len(weeks) |->
        << Draw("CellFormat"), Link("week", l.Weeks[mo][i]) >>])

\* The week rows of the month page: a label, and a link when ShowWeeks.
monthPageWeekRows(c, l, mo) ==
    LET weeks == monthWeeks(c.Year, mo) IN
    Concat([i \in 1..Len(weeks) |->
        << Draw("CellFormat") >>
        \o (IF c.ShowWeeks
               THEN << Link("week", l.Weeks[mo][i]) >> ELSE <<>>)])

\* The day column of the month page: a number, and a link when ShowDays.
monthPageDayRows(c, l, mo) ==
    Concat([d \in 1..DaysInMonth(c.Year, mo) |->
        << Draw("CellFormat") >>
        \o (IF c.ShowDays
               THEN << Link("day", Get(l.Days, FormatKey(Date(c.Year, mo, d)))) >>
               ELSE <<>>)])

\* Mutant of monthPageCalls: the month page binds the year anchor.
monthPageCallsBindYear(c, l, mo) ==
    << SetLink(l.Year) >>
    \o addNav(l.Year, 0)
    \o setTitle
    \o monthPageWeekRows(c, l, mo)
    \o monthPageDayRows(c, l, mo)

monthPageCalls(c, l, mo) ==
    << SetLink(l.Months[mo]) >>
    \o addNav(l.Year, 0)
    \o setTitle
    \o monthPageWeekRows(c, l, mo)
    \o monthPageDayRows(c, l, mo)

monthPage(c, l, mo) == Page("month", mo, 0, 0, "", monthPageCalls(c, l, mo))

\* The rows of the week page: every date of the week, linked when ShowDays
\* and the date is of the page's month.
weekPageRows(c, l, mo, days) ==
    Concat([k \in 1..Len(days) |->
        << Draw("CellFormat") >>
        \o (IF c.ShowDays /\ MonthOf(days[k]) = mo
               THEN << Link("day", Get(l.Days, FormatKey(days[k]))) >>
               ELSE <<>>)])

\* Mutant of weekPageCalls: the back link goes to the year page.
weekPageCallsBackToYear(c, l, mo, weekIdx, days) ==
    << SetLink(l.Weeks[mo][weekIdx + 1]) >>
    \o addNav(l.Year, l.Year)
    \o setTitle
    \o weekPageRows(c, l, mo, days)

weekPageCalls(c, l, mo, weekIdx, days) ==
    << SetLink(l.Weeks[mo][weekIdx + 1]) >>
    \o addNav(l.Year, l.Months[mo])
    \o setTitle
    \o weekPageRows(c, l, mo, days)

weekPage(c, l, mo, weekIdx, days) ==
    Page("week", mo, weekIdx, 0, "", weekPageCalls(c, l, mo, weekIdx, days))

dayPageCalls(l, d, back) ==
    << SetLink(Get(l.Days, FormatKey(d))) >>
    \o addNav(l.Year, back)
    \o setTitle
    \o dotGrid

\* mo and weekIdx are the loop variables of buildPlanner at the call.
dayPage(l, mo, weekIdx, d, back) ==
    Page("day", mo, weekIdx, FormatKey(d), "", dayPageCalls(l, d, back))

collectionsHubCalls(l) ==
    << SetLink(Get(l.Hubs, "Collections")) >>
    \o addNav(l.Year, 0)
    \o setTitle
    \o gridLinks(3, CollectionAnchors(l))

collectionsHub(l) == Page("hub", 0, 0, 0, "Collections", collectionsHubCalls(l))

collectionPageCalls(l, name) ==
    << SetLink(Get(l.Collections, name)) >>
    \o addNav(l.Year, Get(l.Hubs, "Collections"))
    \o setTitle
    \o dotGrid

collectionPage(l, i) ==
    Page("collection", 0, i, 0, CollectionNames[i],
         collectionPageCalls(l, CollectionNames[i]))

\* ------------------------------------------------------ allocation pass

\* for _, wk := range weeks { for _, d := range wk { if int(d.Month()) == m
\*   { key := ...; if links.Days[key] == 0 { links.Days[key] = pdf.AddLink() } } } }
\* over the dates ds, starting from registry days and n anchors; yields the
\* registry and the anchor count after the loop.
\* Mutant of DayOwnedBy: the test of d.Month() is lost.
DayOwnedByAny(d, mo) == TRUE

DayOwnedBy(d, mo) == MonthOf(d) = mo

RECURSIVE AllocDays(_, _, _, _)
AllocDays(ds, mo, days, n) ==
    IF ds = <<>> THEN [days |-> days, n |-> n]
    ELSE LET d   == Head(ds)
             key == FormatKey(d)
         IN  IF DayOwnedBy(d, mo) /\ Get(days, key) = 0
                THEN AllocDays(Tail(ds), mo, Put(days, key, AddLink(n)), AddLink(n))
                ELSE AllocDays(Tail(ds), mo, days, n)

\* One iteration of the allocation loop, for month mo: the month anchor,
\* one anchor per week, then the day anchors.
AllocMonthLinks(year, mo, l, n) ==
    LET monthA == AddLink(n)
        weeks  == monthWeeks(year, mo)
        weekAs == [i \in 1..Len(weeks) |-> AddLink(n + i)]
        dd     == AllocDays(Concat(weeks), mo, l.Days, n + 1 + Len(weeks))
    IN  [ links |-> [l EXCEPT !.Months[mo] = monthA,
                              !.Weeks = Put(l.Weeks, mo, weekAs),
                              !.Days = dd.days],
          n |-> dd.n ]

\* --------------------------------------------------------- control flow

Ctl(p, mo, i, d) == [pc |-> p, month |-> mo, idx |-> i, di |-> d]

\* After the month loop: the collections block, or the output.
AfterMonths(c) ==
    IF c.ShowCollections THEN Ctl("hub", 0, 0, 0) ELSE Ctl("output", 0, 0, 0)

\* Mutant of NextMonth: the loop stops one month early.
NextMonthOffByOne(c, mo) ==
    IF mo + 1 < 12 THEN Ctl("month", mo + 1, 0, 0) ELSE AfterMonths(c)

\* month++ of the render loop
NextMonth(c, mo) ==
    IF mo + 1 <= 12 THEN Ctl("month", mo + 1, 0, 0) ELSE AfterMonths(c)

\* the next iteration of "for idx, wk := range weeks"
NextWeek(c, mo, i) ==
    IF i + 1 < Len(monthWeeks(c.Year, mo))
        THEN Ctl("week", mo, i + 1, 0)
        ELSE NextMonth(c, mo)

\* the next iteration of "for _, d := range wk" that does not "continue"
NextDay(c, mo, i, d) ==
    LET wk   == monthWeeks(c.Year, mo)[i + 1]
        rest == { k \in (d + 1)..Len(wk) : MonthOf(wk[k]) = mo }
    IN  IF rest # {}
           THEN Ctl("day", mo, i, CHOOSE k \in rest : \A j \in rest : k <= j)
           ELSE NextWeek(c, mo, i)

\* Mutant of AfterMonthPage: the test of ShowWeeks is lost.
AfterMonthPageUnguarded(c, mo) ==
    IF Len(monthWeeks(c.Year, mo)) > 0
        THEN Ctl("week", mo, 0, 0)
        ELSE NextMonth(c, mo)

\* after monthPage: "if cfg.Layout.ShowWeeks { for idx, wk := range weeks"
AfterMonthPage(c, mo) ==
    IF c.ShowWeeks /\ Len(monthWeeks(c.Year, mo)) > 0
        THEN Ctl("week", mo, 0, 0)
        ELSE NextMonth(c, mo)

\* after weekPage: "if cfg.Layout.ShowDays { for _, d := range wk"
AfterWeekPage(c, mo, i) ==
    IF c.ShowDays THEN NextDay(c, mo, i, 0) ELSE NextWeek(c, mo, i)

\* after the allocation loop: "if cfg.Layout.ShowCollections {"
AfterAllocMonths(c) == IF c.ShowCollections THEN "alloc_coll" ELSE "year"

Goto(ctl) ==
    /\ pc' = ctl.pc
    /\ month' = ctl.month
    /\ idx' = ctl.idx
    /\ di' = ctl.di

\* --------------------------------------------------------------- actions

Configs ==
    [Year : BuildYears, ShowWeeks : BOOLEAN, ShowDays : BOOLEAN,
     ShowCollections : BOOLEAN]

MwIdle == [pc |-> "idle", year |-> 0, month |-> 0, cur |-> 0, last |-> 0,
           weeks |-> <<>>]

\* buildPlanner has created the pdf and links := newLinks().
Init ==
    /\ cfg \in Configs
    /\ pc = "alloc_year"
    /\ month = 0
    /\ idx = 0
    /\ di = 0
    /\ nLinks = 0
    /\ links = newLinks
    /\ pages = <<>>
    /\ mw = MwIdle

\* links.Year = pdf.AddLink()
AllocYear ==
    /\ pc = "alloc_year"
    /\ nLinks' = AddLink(nLinks)
    /\ links' = [links EXCEPT !.Year = AddLink(nLinks)]
    /\ Goto(Ctl("alloc_month", 1, 0, 0))
    /\ UNCHANGED <<cfg, pages, mw>>

\* one iteration of "for m := 1; m <= 12; m++" of the allocation pass
AllocMonth ==
    /\ pc = "alloc_month"
    /\ LET r == AllocMonthLinks(cfg.Year, month, links, nLinks) IN
        /\ links' = r.links
        /\ nLinks' = r.n
    /\ IF month + 1 <= 12
          THEN Goto(Ctl("alloc_month", month + 1, 0, 0))
          ELSE Goto(Ctl(AfterAllocMonths(cfg), 0, 0, 0))
    /\ UNCHANGED <<cfg, pages, mw>>

\* the four AddLink calls of the collections block
AllocCollections ==
    /\ pc = "alloc_coll"
    /\ links' = [links EXCEPT
                   !.Hubs = Put(links.Hubs, "Collections", AddLink(nLinks)),
                   !.Collections =
                       [name \in {"Writing", "Ideas", "OOO"} |->
                           CASE name = "Writing" -> AddLink(nLinks + 1)
                             [] name = "Ideas"   -> AddLink(nLinks + 2)
                             [] name = "OOO"     -> AddLink(nLinks + 3)]]
    /\ nLinks' = nLinks + 4
    /\ Goto(Ctl("year", 0, 0, 0))
    /\ UNCHANGED <<cfg, pages, mw>>

YearPage ==
    /\ pc = "year"
    /\ pages' = Append(pages, yearPage(cfg, links))
    /\ Goto(Ctl("month", 1, 0, 0))
    /\ UNCHANGED <<cfg, nLinks, links, mw>>

MonthPage ==
    /\ pc = "month"
    /\ pages' = Append(pages, monthPage(cfg, links, month))
    /\ Goto(AfterMonthPage(cfg, month))
    /\ UNCHANGED <<cfg, nLinks, links, mw>>

WeekPage ==
    /\ pc = "week"
    /\ pages' = Append(pages,
          weekPage(cfg, links, month, idx, monthWeeks(cfg.Year, month)[idx + 1]))
    /\ Goto(AfterWeekPage(cfg, month, idx))
    /\ UNCHANGED <<cfg, nLinks, links, mw>>

\* Mutant of DayPage: the day page allocates its anchor itself.
DayPageLazy ==
    /\ pc = "day"
    /\ LET d == monthWeeks(cfg.Year, month)[idx + 1][di]
           l == [links EXCEPT !.Days = Put(links.Days, FormatKey(d), AddLink(nLinks))]
       IN  /\ links' = l
           /\ nLinks' = AddLink(nLinks)
           /\ pages' = Append(pages, dayPage(l, month, idx, d, l.Weeks[month][idx + 1]))
    /\ Goto(NextDay(cfg, month, idx, di))
    /\ UNCHANGED <<cfg, mw>>

\* dayPage(pdf, cfg, links, d, links.Weeks[month][idx])
DayPage ==
    /\ pc = "day"
    /\ pages' = Append(pages,
          dayPage(links, month, idx, monthWeeks(cfg.Year, month)[idx + 1][di],
                  links.Weeks[month][idx + 1]))
    /\ Goto(NextDay(cfg, month, idx, di))
    /\ UNCHANGED <<cfg, nLinks, links, mw>>

CollectionsHub ==
    /\ pc = "hub"
    /\ pages' = Append(pages, collectionsHub(links))
    /\ Goto(Ctl("collection", 0, 1, 0))
    /\ UNCHANGED <<cfg, nLinks, links, mw>>

\* one iteration of "for _, name := range []string{...}"; idx counts from 1
CollectionPage ==
    /\ pc = "collection"
    /\ pages' = Append(pages, collectionPage(links, idx))
    /\ IF idx < Len(CollectionNames)
          THEN Goto(Ctl("collection", 0, idx + 1, 0))
          ELSE Goto(Ctl("output", 0, 0, 0))
    /\ UNCHANGED <<cfg, nLinks, links, mw>>

\* return pdf.OutputFileAndClose(cfg.Output)
Output ==
    /\ pc = "output"
    /\ Goto(Ctl("done", 0, 0, 0))
    /\ UNCHANGED <<cfg, nLinks, links, pages, mw>>

Next ==
    \/ AllocYear
    \/ AllocMonth
    \/ AllocCollections
    \/ YearPage
    \/ MonthPage
    \/ WeekPage
    \/ DayPage
    \/ CollectionsHub
    \/ CollectionPage
    \/ Output

Spec == Init /\ [][Next]_vars

\* ------------------------------------------- monthWeeks, step by step

BuildIdle ==
    /\ cfg = [Year |-> 0, ShowWeeks |-> FALSE, ShowDays |-> FALSE,
              ShowCollections |-> FALSE]
    /\ pc = "idle"
    /\ month = 0
    /\ idx = 0
    /\ di = 0
    /\ nLinks = 0
    /\ links = newLinks
    /\ pages = <<>>

\* monthWeeks(year, month) has been called.
InitWeeks ==
    /\ BuildIdle
    /\ \E y \in WeekYears, mo \in 1..12 :
          mw = [pc |-> "entry", year |-> y, month |-> mo, cur |-> 0,
                last |-> 0, weeks |-> <<>>]

\* lines 52-59: first, last, offset, start; cur := start
MwEnter ==
    /\ mw.pc = "entry"
    /\ mw' = [mw EXCEPT !.pc = "loop",
                        !.cur = StartOf(mw.year, mw.month),
                        !.last = LastOf(mw.year, mw.month)]
    /\ UNCHANGED buildVars

\* one iteration of the for loop: a week is appended; break or go on
MwIterate ==
    /\ mw.pc = "loop"
    /\ Len(mw.weeks) < MaxWeeks
    /\ LET c == CurAfterWeek(mw.cur) IN
          mw' = [mw EXCEPT !.weeks = Append(mw.weeks, WeekFrom(mw.cur)),
                           !.cur = c,
                           !.pc = IF LoopExit(c, mw.last) THEN "return" ELSE "loop"]
    /\ UNCHANGED buildVars

\* return weeks
MwReturn ==
    /\ mw.pc = "return"
    /\ mw' = [mw EXCEPT !.pc = "done"]
    /\ UNCHANGED buildVars

NextWeeks ==
    \/ MwEnter
    \/ MwIterate
    \/ MwReturn

SpecWeeks == InitWeeks /\ [][NextWeeks]_vars

\* The loop runs on one goroutine with nothing to wait for: a step that can
\* be taken is taken.
SpecWeeksFair == InitWeeks /\ [][NextWeeks]_vars /\ WF_vars(NextWeeks)

\* ------------------------------------------- reading the call log

Range(f) == { f[x] : x \in DOMAIN f }

\* the anchors page pg binds, one entry per SetLink call
SetLinksOf(pg) == SelectSeq(pg.calls, LAMBDA c : c.op = "SetLink")

\* the anchors page pg binds
BoundBy(pg) == { c.a : c \in Range(SetLinksOf(pg)) }

\* the Link calls made on page pg
LinksOf(pg) == SelectSeq(pg.calls, LAMBDA c : c.op = "Link")

\* the targets of the Link calls of page pg made at call site role
TargetsOf(pg, role) == { c.a : c \in { x \in Range(pg.calls) : x.op = "Link" /\ x.role = role } }

\* every target of every Link call made so far
AllTargets == UNION { { c.a : c \in Range(LinksOf(pages[p])) } : p \in DOMAIN pages }

\* <<page number, anchor>> for every SetLink call made so far
AllBindings ==
    UNION { { <<p, c.a>> : c \in Range(SetLinksOf(pages[p])) } : p \in DOMAIN pages }

PagesOfKind(kind) == { p \in DOMAIN pages : pages[p].kind = kind }

WeekAnchors == UNION { Range(links.Weeks[mo]) : mo \in DOMAIN links.Weeks }

DayAnchors == Range(links.Days)

\* the day numbers of the calendar year y, and of its month mo
YearDates(y) == { t \in (DaysSinceEpoch(y) - 7)..(DaysSinceEpoch(y) + 373) : YearOf(t) = y }

MonthDates(y, mo) == { t \in YearDates(y) : MonthOf(t) = mo }

\* the keys of the dates of each year a build is checked for
YearKeys == [y \in BuildYears |-> { FormatKey(t) : t \in YearDates(y) }]

\* the positions <<i, k>> of the weeks ws holding day number t
Positions(ws, t) ==
    { ik \in (DOMAIN ws) \X (1..7) : ws[ik[1]][ik[2]] = t }

\* ==================================================== monthWeeks claims

\* Every week built so far has 7 consecutive dates and starts on a Monday,
\* and each week starts 7 days after the one before it.
WeeksWellFormed(ws) ==
    /\ \A i \in DOMAIN ws :
          /\ Len(ws[i]) = 7
          /\ Weekday(ws[i][1]) = Monday
          /\ \A k \in 1..6 : ws[i][k + 1] = ws[i][k] + 1
    /\ \A i \in 1..(Len(ws) - 1) : ws[i + 1][1] = ws[i][1] + 7

\* The dates of ws that fall in month mo are exactly the dates of month mo
\* of year y, each once.
WeeksCoverMonth(ws, y, mo) ==
    LET md == MonthDates(y, mo) IN
    /\ \A t \in md : Cardinality(Positions(ws, t)) = 1
    /\ \A ik \in (DOMAIN ws) \X (1..7) :
          MonthOf(ws[ik[1]][ik[2]]) = mo => ws[ik[1]][ik[2]] \in md

\* C1: for every year and month, the weeks monthWeeks builds have exactly 7
\* consecutive dates each, start on a Monday and follow each other in 7-day
\* strides; and the dates of the returned weeks that fall in the month are
\* exactly the calendar dates of the month, each once.
C1_MonthWeeksCoverMonth ==
    /\ WeeksWellFormed(mw.weeks)
    /\ mw.pc = "done" => WeeksCoverMonth(mw.weeks, mw.year, mw.month)

\* A six-week month whose first week starts in the previous month has been
\* returned.
C1_Witness ==
    /\ mw.pc = "done"
    /\ Len(mw.weeks) = 6
    /\ MonthOf(mw.weeks[1][1]) # mw.month
    /\ MonthOf(mw.weeks[6][7]) # mw.month

\* The step-by-step call returns what the operator monthWeeks computes.
MonthWeeksAgree ==
    mw.pc = "done" => mw.weeks = monthWeeks(mw.year, mw.month)

\* What C10 states of the returned weeks.
StopsAfterLastDay(ws, y, mo) ==
    LET md     == MonthDates(y, mo)
        first  == CHOOSE t \in md : \A u \in md : t <= u
        last   == CHOOSE t \in md : \A u \in md : t >= u
    IN  /\ Len(ws) \in 4..6
        /\ first \in Range(ws[1])
        /\ last \in Range(ws[Len(ws)])
        /\ \A i \in DOMAIN ws : Range(ws[i]) \cap md # {}

\* C10: for every year and month the loop of monthWeeks terminates, and
\* it has then returned between 4 and 6 weeks, the first holding the 1st of
\* the month, the last holding the month's last day, every one holding at
\* least one date of the month.
C10_LoopTerminates ==
    <>(mw.pc = "done" /\ StopsAfterLastDay(mw.weeks, mw.year, mw.month))

\* A four-week month (a February of 28 days starting on a Monday) has been
\* returned.
C10_Witness ==
    /\ mw.pc = "done"
    /\ Len(mw.weeks) = 4
    /\ mw.month = 2

\* ================================================== buildPlanner claims

AllocationDone == pc \notin {"alloc_year", "alloc_month", "alloc_coll"}

\* C2: when the build has finished, every Link call made on any page
\* targets an anchor handed out by the allocation pass and bound (SetLink) by
\* exactly one page.
C2_EveryLinkResolves ==
    pc = "done" =>
        LET binds == AllBindings IN
        \A a \in AllTargets :
            /\ a \in 1..nLinks
            /\ Cardinality({ b \in binds : b[2] = a }) = 1

\* C3: with ShowWeeks off there is no week page and no Link to a week
\* anchor, with ShowDays off there is no day page and no Link to a day anchor,
\* and no Link call is ever made with anchor 0.
C3_ZeroHandle ==
    LET targets == AllTargets IN
    /\ ~cfg.ShowWeeks => PagesOfKind("week") = {} /\ targets \cap WeekAnchors = {}
    /\ ~cfg.ShowDays => PagesOfKind("day") = {} /\ targets \cap DayAnchors = {}
    /\ 0 \notin targets

\* A build with week and day pages off has rendered all its pages, the
\* month pages among them.
C3_Witness ==
    /\ pc = "done"
    /\ ~cfg.ShowWeeks
    /\ ~cfg.ShowDays
    /\ Cardinality(PagesOfKind("month")) = 12
    /\ WeekAnchors # {}
    /\ DayAnchors # {}

\* the dates that appear in the week lists of two different months of year y
OverlapDates(y) ==
    { t \in YearDates(y) :
        \E m1 \in 1..12, m2 \in 1..12 :
            /\ m1 < m2
            /\ \E i \in DOMAIN monthWeeks(y, m1) : t \in Range(monthWeeks(y, m1)[i])
            /\ \E i \in DOMAIN monthWeeks(y, m2) : t \in Range(monthWeeks(y, m2)[i]) }

\* the day pages rendered for the date with key k
DayPagesFor(k) == { p \in PagesOfKind("day") : pages[p].key = k }

\* C4: after the allocation pass Days holds one anchor, different from
\* every other date's, for each calendar date of the configured year and for
\* no other date (365 or 366 entries); and a finished build with week and day
\* pages has rendered exactly one day page per date of the year, in the
\* traversal of the month that holds the date.
C4_Dedup ==
    LET keys == YearKeys[cfg.Year] IN
    /\ pc \notin {"alloc_year", "alloc_month"} =>
          /\ DOMAIN links.Days = keys
          /\ Cardinality(DOMAIN links.Days) = (IF IsLeap(cfg.Year) THEN 366 ELSE 365)
          /\ Cardinality(DayAnchors) = Cardinality(DOMAIN links.Days)
          /\ 0 \notin DayAnchors
    /\ pc = "done" /\ cfg.ShowWeeks /\ cfg.ShowDays =>
          /\ \A k \in keys :
                LET ps == DayPagesFor(k) IN
                /\ Cardinality(ps) = 1
                /\ \A p \in ps : pages[p].month = (k \div 100) % 100
          /\ Cardinality(PagesOfKind("day")) = Cardinality(keys)

\* The full build of 2025 has finished with 365 day pages, and the year has
\* dates listed in the weeks of two months.
C4_Witness ==
    /\ pc = "done"
    /\ cfg.Year = 2025
    /\ cfg.ShowWeeks
    /\ cfg.ShowDays
    /\ Cardinality(PagesOfKind("day")) = 365
    /\ OverlapDates(2025) # {}

\* C5: in a finished build the back link of every week page targets the
\* anchor bound by the month page of its month, links.Months[m-1]; the back
\* link of every day page targets the anchor bound by the week page it was
\* rendered under, links.Weeks[m][idx], the week of the date's own month that
\* holds the date.
C5_RoundTrip ==
    pc = "done" =>
        /\ \A p \in PagesOfKind("week") :
              LET pg == pages[p] IN
              /\ TargetsOf(pg, "back") = { links.Months[pg.month] }
              /\ \E q \in PagesOfKind("month") :
                    /\ pages[q].month = pg.month
                    /\ BoundBy(pages[q]) = TargetsOf(pg, "back")
        /\ \A p \in PagesOfKind("day") :
              LET pg == pages[p] IN
              /\ TargetsOf(pg, "back") = { links.Weeks[pg.month][pg.idx + 1] }
              /\ \E q \in PagesOfKind("week") :
                    /\ pages[q].month = pg.month
                    /\ pages[q].idx = pg.idx
                    /\ BoundBy(pages[q]) = TargetsOf(pg, "back")
              /\ pg.key \in { FormatKey(t) :
                                t \in Range(monthWeeks(cfg.Year, pg.month)[pg.idx + 1]) }
              /\ (pg.key \div 100) % 100 = pg.month

\* A finished build that rendered week pages and day pages.
C5_Witness ==
    /\ pc = "done"
    /\ PagesOfKind("week") # {}
    /\ PagesOfKind("day") # {}

\* The place of a page in the render order: <<month, week, date>> with the
\* year page first and the collections block after December.
Rank(pg) ==
    CASE pg.kind = "year"       -> <<0, 0, 0>>
      [] pg.kind = "month"      -> <<pg.month, 0, 0>>
      [] pg.kind = "week"       -> <<pg.month, pg.idx + 1, 0>>
      [] pg.kind = "day"        -> <<pg.month, pg.idx + 1, pg.key>>
      [] pg.kind = "hub"        -> <<13, 0, 0>>
      [] pg.kind = "collection" -> <<13, pg.idx, 0>>

Before(r, q) ==
    \/ r[1] < q[1]
    \/ r[1] = q[1] /\ r[2] < q[2]
    \/ r[1] = q[1] /\ r[2] = q[2] /\ r[3] < q[3]

\* the ranks of the pages a finished build of configuration c must hold
ExpectedRanks(c) ==
    {<<0, 0, 0>>}
    \cup { <<mo, 0, 0>> : mo \in 1..12 }
    \cup (IF c.ShowWeeks
             THEN UNION { { <<mo, i, 0>> : i \in DOMAIN monthWeeks(c.Year, mo) } :
                          mo \in 1..12 }
             ELSE {})
    \cup (IF c.ShowWeeks /\ c.ShowDays
             THEN UNION { UNION { { <<mo, i, FormatKey(t)>> :
                                      t \in { u \in Range(monthWeeks(c.Year, mo)[i]) :
                                                MonthOf(u) = mo } } :
                                  i \in DOMAIN monthWeeks(c.Year, mo) } :
                          mo \in 1..12 }
             ELSE {})
    \cup (IF c.ShowCollections
             THEN { <<13, i, 0>> : i \in 0..3 }
             ELSE {})

\* C6: the year page is the first page; pages follow each other in the
\* order month, its weeks by index, each week's in-month days by date, then
\* the collections hub and the three collection pages after every month, week
\* and day page; and a finished build holds exactly the pages of its
\* configuration, so each page is followed by the next one of that order.
C6_RenderOrder ==
    /\ pages # <<>> => pages[1].kind = "year"
    /\ \A p \in 1..(Len(pages) - 1) : Before(Rank(pages[p]), Rank(pages[p + 1]))
    /\ pc = "done" =>
          /\ { Rank(pages[p]) : p \in DOMAIN pages } = ExpectedRanks(cfg)
          /\ cfg.ShowCollections =>
                [i \in 1..4 |-> pages[Len(pages) - 4 + i].name]
                    = <<"Collections", "Writing", "Ideas", "OOO">>

\* A finished build with every kind of page.
C6_Witness ==
    /\ pc = "done"
    /\ \A kind \in {"year", "month", "week", "day", "hub", "collection"} :
          PagesOfKind(kind) # {}

\* C7: every anchor is handed out before the first page is added: from
\* the first page on, no step changes the pdf's anchor count or anything in
\* the Links registry, and no page exists while the allocation pass runs.
C7_TwoPhase ==
    /\ [](~AllocationDone => pages = <<>>)
    /\ [][pages' # <<>> => (links' = links /\ nLinks' = nLinks)]_vars

\* Pages have been rendered from a registry filled by the allocation pass.
C7_Witness ==
    /\ pc = "done"
    /\ Len(pages) > 17
    /\ nLinks > 17
    /\ DOMAIN links.Collections # {}

\* C8: with week and day pages off and collections on, a finished build
\* holds exactly 17 pages: 1 year page, 12 month pages, 1 collections hub and
\* 3 collection pages.
C8_SeventeenPages ==
    pc = "done" /\ ~cfg.ShowWeeks /\ ~cfg.ShowDays /\ cfg.ShowCollections =>
        /\ Len(pages) = 17
        /\ Cardinality(PagesOfKind("year")) = 1
        /\ Cardinality(PagesOfKind("month")) = 12
        /\ Cardinality(PagesOfKind("hub")) = 1
        /\ Cardinality(PagesOfKind("collection")) = 3

\* The build of 2024 as the CLI configures it without -full has finished.
C8_Witness ==
    /\ pc = "done"
    /\ cfg = [Year |-> 2024, ShowWeeks |-> FALSE, ShowDays |-> FALSE,
              ShowCollections |-> TRUE]
    /\ Len(pages) = 17

\* the anchor the registry holds for the target of page pg
OwnAnchor(pg) ==
    CASE pg.kind = "year"       -> links.Year
      [] pg.kind = "month"      -> links.Months[pg.month]
      [] pg.kind = "week"       -> links.Weeks[pg.month][pg.idx + 1]
      [] pg.kind = "day"        -> Get(links.Days, pg.key)
      [] pg.kind = "hub"        -> Get(links.Hubs, "Collections")
      [] pg.kind = "collection" -> Get(links.Collections, pg.name)

\* C9: every page has exactly one SetLink call, it is the first call made
\* on the page (before any text, link or shape), it binds the anchor of the
\* page's own target, and no anchor is bound by two pages.
C9_Binding ==
    /\ \A p \in DOMAIN pages :
          LET pg == pages[p] IN
          /\ Len(SetLinksOf(pg)) = 1
          /\ pg.calls[1].op = "SetLink"
          /\ pg.calls[1].a = OwnAnchor(pg)
          /\ pg.calls[1].a # 0
    /\ Cardinality({ pages[p].calls[1].a : p \in DOMAIN pages }) = Len(pages)

\* Each of the six page builders has run.
C9_Witness ==
    /\ pc = "done"
    /\ cfg.ShowCollections
    /\ PagesOfKind("week") # {}
    /\ PagesOfKind("day") # {}
    /\ PagesOfKind("hub") # {}
    /\ Cardinality(PagesOfKind("collection")) = 3

====
